---- MODULE Spec2Model ----
(***************************************************************************)
(* The problem3 document pipeline: the processor (process.py) turns raw    *)
(* pages into per-document JSON records under /shared/processed and then   *)
(* writes status/process_complete.json; the analyzer (analyze.py) polls    *)
(* for that marker, ingests every record, computes the corpus report,      *)
(* writes analysis/final_report.json and then status/analyze_complete.json.*)
(*                                                                         *)
(* The module also holds rate_limited_get and the entry loop of            *)
(* problem2/arxiv_processor.py and the URL loop of                         *)
(* problem1/fetch_and_process.py, each with its own variables and its own  *)
(* specification.                                                          *)
(*                                                                         *)
(* Text is a sequence of code points, a token is a sequence of code points.*)
(* A file name page_<i>.json is the index i; for fewer than ten files the  *)
(* lexicographic order of the names (sorted(), analyze.py:43) is the order *)
(* of the indices.  A float rounded to 6 decimals is the integer number of *)
(* millionths.  An average is an exact fraction.  The report carries every *)
(* field but processing_timestamp.                                         *)
(***************************************************************************)
EXTENDS Integers, Sequences, FiniteSets

VARIABLES
    raw,            \* /shared/raw: the stripped text of page_<i>.html, by index
    fetchDone,      \* status/fetch_complete.json exists
    procPc,         \* processor: position in main()
    procFiles,      \* processor: files listed from the raw directory
    procIdx,        \* processor: number of loop iterations completed
    processed,      \* /shared/processed: the record stored in page_<i>.json
    procMarker,     \* status/process_complete.json exists
    anPc,           \* analyzer: position in main()
    anErr,          \* analyzer: the step whose exception ended the run
    files,          \* analyzer: sorted listing of the processed directory
    idx,            \* analyzer: number of loop iterations completed
    docs,           \* analyzer: docs, the file names appended so far
    all_tokens,     \* analyzer: all_tokens
    doc_word_sets,  \* analyzer: doc_word_sets, file name -> set of lower-cased tokens
    total_words,    \* analyzer: total_words
    doc_avg_sentence_len,   \* analyzer: doc_avg_sentence_len, one average per document
    doc_avg_word_len,       \* analyzer: doc_avg_word_len, one average per document
    report,         \* analyzer: the report object once built
    reportFile,     \* analysis/final_report.json: absent, partial or complete
    anMarker,       \* status/analyze_complete.json: absent, partial or complete
    runs,           \* analyzer: number of earlier runs of main() on this /shared
    firstReport,    \* the report object the first run built
    \* problem2/arxiv_processor.py, rate_limited_get
    rlPc,           \* position in rate_limited_get
    max_attempts,   \* the parameter max_attempts
    attempt,        \* the loop variable attempt
    last_attempt,   \* last_attempt, a reading of time.time() (0 before the first attempt)
    clock,          \* seconds elapsed since the call
    attemptStarts,       \* the elapsed time at which each attempt started
    outcomes,       \* how each attempt ended
    \* problem1/fetch_and_process.py, main
    fpPc,           \* position in main()
    urls,           \* urls, as read from the input file
    fpIdx,          \* number of loop iterations completed
    responses,      \* responses
    status_dist,    \* status_dist, a dict
    successful,     \* successful
    failed,         \* failed
    errorLog,       \* errors.log, one entry per appended line
    summary,        \* summary, once built
    \* problem2/arxiv_processor.py, main
    axPc,           \* position in main()
    entries,        \* entries, the <entry> elements of the feed
    axIdx,          \* number of loop iterations completed
    papers_out,     \* papers_out
    total_words_all,
    abstract_lengths,
    global_vocab,
    df_counts,
    tf_counts,
    uppercase_terms,
    numeric_terms,
    hyphen_terms,
    category_distribution,
    corpus          \* the corpus object, once built

vars == <<raw, fetchDone, procPc, procFiles, procIdx, processed, procMarker,
          anPc, anErr, files, idx, docs, all_tokens, doc_word_sets,
          total_words, doc_avg_sentence_len, doc_avg_word_len,
          report, reportFile, anMarker, runs, firstReport,
          rlPc, max_attempts, attempt, last_attempt, clock, attemptStarts, outcomes,
          fpPc, urls, fpIdx, responses, status_dist, successful, failed,
          errorLog, summary,
          axPc, entries, axIdx, papers_out, total_words_all, abstract_lengths,
          global_vocab, df_counts, tf_counts, uppercase_terms, numeric_terms,
          hyphen_terms, category_distribution, corpus>>

runVars == <<runs, firstReport>>
getVars == <<rlPc, max_attempts, attempt, last_attempt, clock, attemptStarts, outcomes>>
fpVars == <<fpPc, urls, fpIdx, responses, status_dist, successful, failed,
            errorLog, summary>>
axAccumulators ==
    <<total_words_all, abstract_lengths, global_vocab, df_counts, tf_counts,
      uppercase_terms, numeric_terms, hyphen_terms, category_distribution>>
axVars == <<axPc, entries, axIdx, papers_out, axAccumulators, corpus>>
scriptVars == <<getVars, fpVars, axVars>>
otherVars == <<runVars, scriptVars>>

pipelineVars ==
    <<raw, fetchDone, procPc, procFiles, procIdx, processed, procMarker,
      anPc, anErr, files, idx, docs, all_tokens, doc_word_sets, total_words,
      doc_avg_sentence_len, doc_avg_word_len, report, reportFile, anMarker,
      runs, firstReport>>

procVars == <<procPc, procFiles, procIdx, processed, procMarker>>
anVars == <<anPc, anErr, files, idx, docs, all_tokens, doc_word_sets,
            total_words, doc_avg_sentence_len, doc_avg_word_len,
            report, reportFile, anMarker>>
anData == <<files, idx, docs, all_tokens, doc_word_sets, total_words,
            doc_avg_sentence_len, doc_avg_word_len, report>>

(***************************************************************************)
(* Bounds of the model.                                                    *)
(***************************************************************************)
MaxDocs == 2
MaxChars == 3
MaxPages == 2
MaxFiles == 4
NumLetters == 6
MaxWords == 6
MaxReruns == 1
MaxLatency == 2
MaxSkew == 1
MaxOversleep == 1
MaxUrls == 3
MaxEntries == 2

(***************************************************************************)
(* Program constants.                                                      *)
(***************************************************************************)
TopK == 100
Decimals == 6
ReadabilityDecimals == 3
WordLengthUnit == 5
DefaultMaxAttempts == 3
MinGap == 3
TopWordsN == 50

Million == 10 ^ Decimals
Thousand == 10 ^ ReadabilityDecimals

(***************************************************************************)
(* Characters.  \w is modelled on ASCII: digits, letters and underscore.   *)
(***************************************************************************)
IsWordChar(c) == c \in (48..57) \cup (65..90) \cup {95} \cup (97..122)

InTokenClass(c) == IsWordChar(c) \/ c = 45

IsWordAt(s, i) == i \in 1..Len(s) /\ IsWordChar(s[i])

\* \b at offset p (between s[p] and s[p+1]): exactly one side is a word character.
WordBoundary(s, p) == IsWordAt(s, p) # IsWordAt(s, p + 1)

\* [\w-]+ taken greedily from offset p: the largest e with s[p+1..e] in the class.
RECURSIVE GreedyEnd(_, _)
GreedyEnd(s, e) ==
    IF e < Len(s) /\ InTokenClass(s[e + 1]) THEN GreedyEnd(s, e + 1) ELSE e

\* The regex \b[\w-]+\b tried at offset p: the end of the match, or 0 when it
\* fails.  The engine backtracks from the greedy end to the first end that
\* is a word boundary, so the match is the longest one.
MatchAt(s, p) ==
    IF ~WordBoundary(s, p) THEN 0
    ELSE LET ends == {e \in (p + 1)..GreedyEnd(s, p) : WordBoundary(s, e)}
         IN IF ends = {} THEN 0
            ELSE CHOOSE e \in ends : \A f \in ends : f <= e

\* The leftmost offset from p on where the regex matches, or -1.
RECURSIVE NextMatch(_, _)
NextMatch(s, p) ==
    IF p >= Len(s) THEN -1
    ELSE IF MatchAt(s, p) # 0 THEN p
    ELSE NextMatch(s, p + 1)

\* One step of re.findall, from the state [pos, out]: the scan moves to the
\* leftmost match at or after pos, appends it and resumes at its end; with
\* no match left the scan is at the end of the text.
FindStep(s, st) ==
    LET q == NextMatch(s, st.pos)
    IN IF q < 0 THEN [pos |-> Len(s), out |-> st.out]
       ELSE [pos |-> MatchAt(s, q),
             out |-> Append(st.out, SubSeq(s, q + 1, MatchAt(s, q)))]

\* n steps of the scan, one after the other.  The evaluation halves n and
\* binds the state after the first half (the one element of a set) before
\* it goes on; the steps and their order are the same.
RECURSIVE FindSteps(_, _, _)
FindSteps(s, st, n) ==
    IF n = 0 THEN st
    ELSE IF n = 1 THEN CHOOSE r \in {FindStep(s, t) : t \in {st}} : TRUE
    ELSE CHOOSE r \in {FindSteps(s, half, n - (n \div 2)) :
                          half \in {FindSteps(s, st, n \div 2)}} : TRUE

\* re.findall(r"\b[\w-]+\b", text): every match takes at least one character,
\* so Len(text) steps reach the end of the text.
tokenize(text) == FindSteps(text, [pos |-> 0, out |-> <<>>], Len(text)).out

\* str.lower() on the modelled characters.
LowerChar(c) == IF c \in 65..90 THEN c + 32 ELSE c

lower(t) == [i \in 1..Len(t) |-> LowerChar(t[i])]

LowerAll(ts) == [i \in 1..Len(ts) |-> lower(ts[i])]

Range(s) == {s[i] : i \in 1..Len(s)}

Max(a, b) == IF a >= b THEN a ELSE b

(***************************************************************************)
(* Sentences: re.split(r"[.!?]+", text), each piece stripped, the empty    *)
(* ones dropped.  The pieces between the runs of terminators are the       *)
(* maximal runs of other characters; the empty pieces re.split returns at  *)
(* the ends of the text are dropped with the blank ones.                   *)
(***************************************************************************)
IsTerminator(c) == c \in {33, 46, 63}

\* str.strip() removes the white space of the modelled characters.
IsSpace(c) == c \in {9, 10, 11, 12, 13, 32}

strip(s) ==
    LET keep == {i \in 1..Len(s) : ~IsSpace(s[i])}
    IN IF keep = {} THEN <<>>
       ELSE SubSeq(s, CHOOSE i \in keep : \A j \in keep : i <= j,
                      CHOOSE i \in keep : \A j \in keep : j <= i)

\* The pieces of re.split, without the empty ones, in order.
SplitSentences(text) ==
    LET starts == {i \in 1..Len(text) :
                      ~IsTerminator(text[i]) /\ (i = 1 \/ IsTerminator(text[i - 1]))}
        EndOf(b) == CHOOSE e \in b..Len(text) :
                        /\ \A j \in b..e : ~IsTerminator(text[j])
                        /\ (e = Len(text) \/ IsTerminator(text[e + 1]))
        Nth(m) == CHOOSE b \in starts : Cardinality({x \in starts : x < b}) = m - 1
    IN [m \in 1..Cardinality(starts) |-> SubSeq(text, Nth(m), EndOf(Nth(m)))]

\* SelectSeq over the stripped pieces: the sentences of the text.
sentences(text) ==
    CHOOSE r \in
        {SelectSeq([m \in 1..Len(pieces) |-> strip(pieces[m])], LAMBDA p : p # <<>>) :
            pieces \in {SplitSentences(text)}} : TRUE

\* [tokenize(s) for s in sentences]
SentenceTokens(text) ==
    CHOOSE r \in {[m \in 1..Len(ss) |-> tokenize(ss[m])] : ss \in {sentences(text)}} : TRUE

\* " ".join(ws[lo..hi])
RECURSIVE JoinRange(_, _, _)
JoinRange(ws, lo, hi) ==
    IF lo > hi THEN <<>>
    ELSE IF lo = hi THEN ws[lo]
    ELSE LET mid == (lo + hi) \div 2
         IN JoinRange(ws, lo, mid) \o <<32>> \o JoinRange(ws, mid + 1, hi)

JoinWords(ws) == JoinRange(ws, 1, Len(ws))

\* ngrams producing one n-gram too few: range(0, len(tokens) - n).
ngrams_DropsLast(tokens, n) ==
    [i \in 1..Max(0, Len(tokens) - n) |-> JoinWords(SubSeq(tokens, i, i + n - 1))]

\* [" ".join(tokens[i:i+n]) for i in range(0, max(0, len(tokens)-n+1))]
ngrams(tokens, n) ==
    [i \in 1..Max(0, Len(tokens) - n + 1) |-> JoinWords(SubSeq(tokens, i, i + n - 1))]

(***************************************************************************)
(* Counter and Counter.most_common.  A Counter is the sequence of          *)
(* [word, count] entries in insertion order, which is the order of first   *)
(* occurrence (dict order).                                                *)
(* An intermediate result is named by binding it as the one element of a   *)
(* set, CHOOSE r \in {F(x) : x \in {e}} : TRUE, which is F(e) with e         *)
(* evaluated once.                                                         *)
(***************************************************************************)
CounterAdd(c, w) ==
    IF \E i \in 1..Len(c) : c[i].word = w
    THEN LET k == CHOOSE i \in 1..Len(c) : c[i].word = w
         IN SubSeq(c, 1, k - 1) \o <<[word |-> w, count |-> c[k].count + 1]>>
                \o SubSeq(c, k + 1, Len(c))
    ELSE Append(c, [word |-> w, count |-> 1])

\* The Counter c after counting ws[lo..hi] in order (evaluated by halving,
\* the Counter after the first half bound before the second is counted).
RECURSIVE CounterFrom(_, _, _, _)
CounterFrom(c, ws, lo, hi) ==
    IF lo > hi THEN c
    ELSE IF lo = hi THEN CHOOSE r \in {CounterAdd(d, w) : d \in {c}, w \in {ws[lo]}} : TRUE
    ELSE CHOOSE r \in {CounterFrom(half, ws, ((lo + hi) \div 2) + 1, hi) :
                          half \in {CounterFrom(c, ws, lo, (lo + hi) \div 2)}} : TRUE

Counter(ws) == CHOOSE r \in {CounterFrom(<<>>, v, 1, Len(v)) : v \in {ws}} : TRUE

\* InsertByCount with an unstable order: e goes before the entries of equal count.
InsertByCount_Unstable(sorted, e) ==
    LET before == {i \in 1..Len(sorted) : sorted[i].count > e.count}
        k == Cardinality(before)
    IN SubSeq(sorted, 1, k) \o <<e>> \o SubSeq(sorted, k + 1, Len(sorted))

\* Insert e behind every entry whose count is not smaller: entries of equal
\* count keep their insertion order, as sorted(key=count, reverse=True) does.
InsertByCount(sorted, e) ==
    LET before == {i \in 1..Len(sorted) : sorted[i].count >= e.count}
        k == Cardinality(before)
    IN SubSeq(sorted, 1, k) \o <<e>> \o SubSeq(sorted, k + 1, Len(sorted))

\* c[lo..hi] inserted in order into sorted (evaluated by halving, as above).
RECURSIVE SortByCountFrom(_, _, _, _)
SortByCountFrom(sorted, c, lo, hi) ==
    IF lo > hi THEN sorted
    ELSE IF lo = hi THEN CHOOSE r \in {InsertByCount(d, e) : d \in {sorted}, e \in {c[lo]}} : TRUE
    ELSE CHOOSE r \in {SortByCountFrom(half, c, ((lo + hi) \div 2) + 1, hi) :
                          half \in {SortByCountFrom(sorted, c, lo, (lo + hi) \div 2)}} : TRUE

Min(a, b) == IF a <= b THEN a ELSE b

most_common(c, n) ==
    CHOOSE r \in {SubSeq(s, 1, Min(n, Len(s))) :
                     s \in {SortByCountFrom(<<>>, d, 1, Len(d)) : d \in {c}}} : TRUE

\* Round6 rounding up instead of to the nearest.
Round6_Ceiling(num, den) ==
    LET q == (num * Million) \div den
        r == (num * Million) % den
    IN IF r > 0 THEN q + 1 ELSE q

(***************************************************************************)
(* round(num / den, 6) in millionths, den > 0.  Python rounds the float    *)
(* to the nearest value.  num / den lies exactly between two values only   *)
(* when den is a multiple of 128, which no corpus of the inputs below      *)
(* reaches; that branch rounds to the even digit.                          *)
(***************************************************************************)
Round6(num, den) ==
    LET q == (num * Million) \div den
        r == (num * Million) % den
    IN IF 2 * r > den THEN q + 1
       ELSE IF 2 * r = den THEN q + (q % 2)
       ELSE q

\* round(num / den, 3) in thousandths, den > 0; a tie needs den a multiple of 16.
Round3(num, den) ==
    LET q == (num * Thousand) \div den
        r == (num * Thousand) % den
    IN IF 2 * r > den THEN q + 1
       ELSE IF 2 * r = den THEN q + (q % 2)
       ELSE q

(***************************************************************************)
(* Averages.  A float that is a quotient of small integers is modelled by  *)
(* the exact fraction in lowest terms; the floating-point error of the     *)
(* sums and products is far below the distance of these fractions from a   *)
(* rounding tie.                                                           *)
(***************************************************************************)
RECURSIVE GCD(_, _)
GCD(a, b) == IF b = 0 THEN a ELSE GCD(b, a % b)

\* n / d in lowest terms (n and d are bound to their values first).
Frac(n, d) ==
    CHOOSE r \in {[num |-> a \div g, den |-> b \div g] :
                     <<a, b, g>> \in {<<n, d, GCD(n, d)>>}} : TRUE

FracZero == [num |-> 0, den |-> 1]

FracAdd(x, y) ==
    CHOOSE r \in {Frac(a.num * b.den + b.num * a.den, a.den * b.den) :
                     a \in {x}, b \in {y}} : TRUE

FracMul(x, y) ==
    CHOOSE r \in {Frac(a.num * b.num, a.den * b.den) : a \in {x}, b \in {y}} : TRUE

\* sum(nums[lo..hi])
RECURSIVE SumFrac(_, _, _)
SumFrac(nums, lo, hi) ==
    IF lo > hi THEN FracZero
    ELSE IF lo = hi THEN nums[lo]
    ELSE LET mid == (lo + hi) \div 2
         IN FracAdd(SumFrac(nums, lo, mid), SumFrac(nums, mid + 1, hi))

\* sum(nums) / len(nums)
Mean(nums) == FracMul(SumFrac(nums, 1, Len(nums)), Frac(1, Len(nums)))

\* avg with 1.0 for the empty list.
avg_EmptyIsOne(nums) ==
    CHOOSE r \in {IF Len(v) # 0 THEN Mean(v) ELSE [num |-> 1, den |-> 1] :
                     v \in {nums}} : TRUE

\* (sum(nums) / len(nums)) if nums else 0.0
avg(nums) ==
    CHOOSE r \in {IF Len(v) # 0 THEN Mean(v) ELSE FracZero : v \in {nums}} : TRUE

\* [len(x) for x in xs], each length as a number
Lengths(xs) == [i \in 1..Len(xs) |-> Frac(Len(xs[i]), 1)]

\* The frequency of a top word: cnt / total_words if total_words else 0.0.
Frequency(cnt, total) == IF total # 0 THEN Round6(cnt, total) ELSE 0

TopWords(all, total) ==
    CHOOSE r \in
        {[i \in 1..Len(top) |->
             [word |-> top[i].word, count |-> top[i].count,
              frequency |-> Frequency(top[i].count, total)]] :
            top \in {most_common(Counter(LowerAll(all)), TopK)}} : TRUE

\* jaccard_similarity dividing by the sum of the two sizes instead of the union's.
jaccard_similarity_SumOfSizes(doc1_words, doc2_words) ==
    LET inter == doc1_words \cap doc2_words
        total == Cardinality(doc1_words) + Cardinality(doc2_words)
    IN IF total # 0 THEN Round6(Cardinality(inter), total) ELSE 0

jaccard_similarity(doc1_words, doc2_words) ==
    LET inter == doc1_words \cap doc2_words
        union == doc1_words \cup doc2_words
    IN IF union # {} THEN Round6(Cardinality(inter), Cardinality(union)) ELSE 0

\* itertools.combinations(ds, 2) from the pair (i, j) on, in its order.
RECURSIVE CombinationsFrom(_, _, _)
CombinationsFrom(ds, i, j) ==
    IF i >= Len(ds) THEN <<>>
    ELSE IF j > Len(ds) THEN CombinationsFrom(ds, i + 1, i + 2)
    ELSE <<<<ds[i], ds[j]>>>> \o CombinationsFrom(ds, i, j + 1)

\* combinations as the ordered pairs of distinct documents (two nested loops).
combinations_OrderedPairs(ds) ==
    LET n == Len(ds)
        ps == [k \in 1..(n * n) |-> <<ds[((k - 1) \div n) + 1], ds[((k - 1) % n) + 1]>>]
        keep == {k \in 1..(n * n) : ps[k][1] # ps[k][2]}
        nth(m) == CHOOSE k \in keep : Cardinality({x \in keep : x < k}) = m - 1
    IN [m \in 1..Cardinality(keep) |-> ps[nth(m)]]

combinations(ds) == CombinationsFrom(ds, 1, 2)

Similarity(ds, sets) ==
    CHOOSE r \in
        {[k \in 1..Len(ps) |->
             [doc1 |-> ps[k][1], doc2 |-> ps[k][2],
              similarity |-> jaccard_similarity(sets[ps[k][1]], sets[ps[k][2]])]] :
            ps \in {combinations(ds)}} : TRUE

\* Counter over ngrams(lower_all, n) and most_common(100)
TopNgrams(all, n) == most_common(Counter(ngrams(LowerAll(all), n)), TopK)

TopBigrams(all) ==
    CHOOSE r \in
        {[i \in 1..Len(top) |-> [bigram |-> top[i].word, count |-> top[i].count]] :
            top \in {TopNgrams(all, 2)}} : TRUE

TopTrigrams(all) ==
    CHOOSE r \in
        {[i \in 1..Len(top) |-> [trigram |-> top[i].word, count |-> top[i].count]] :
            top \in {TopNgrams(all, 3)}} : TRUE

\* avg_sentence_length * (avg_word_length / 5.0)
ComplexityScore(avg_sentence_length, avg_word_length) ==
    FracMul(avg_sentence_length, FracMul(avg_word_length, Frac(1, WordLengthUnit)))

Readability(sentence_lens, word_lens) ==
    CHOOSE r \in
        {[avg_sentence_length |-> Round3(avg_sentence_length.num, avg_sentence_length.den),
          avg_word_length |-> Round3(avg_word_length.num, avg_word_length.den),
          complexity_score |-> Round6(complexity_score.num, complexity_score.den)] :
            <<avg_sentence_length, avg_word_length, complexity_score>> \in
                {<<avg(sentence_lens), avg(word_lens),
                   ComplexityScore(avg(sentence_lens), avg(word_lens))>>}} : TRUE

NoReport ==
    [documents_processed |-> -1, total_words |-> -1, unique_words |-> -1,
     top_100_words |-> <<>>, document_similarity |-> <<>>,
     top_bigrams |-> <<>>, top_trigrams |-> <<>>,
     readability |-> [avg_sentence_length |-> -1, avg_word_length |-> -1,
                      complexity_score |-> -1]]

\* UniqueWords without the lower-casing.
UniqueWords_CaseSensitive(all) == Cardinality(Range(all))

\* len(set(t.lower() for t in all_tokens))
UniqueWords(all) == Cardinality(Range(LowerAll(all)))

BuildReport ==
    [documents_processed |-> Len(files),
     total_words |-> total_words,
     unique_words |-> UniqueWords(all_tokens),
     top_100_words |-> TopWords(all_tokens, total_words),
     document_similarity |-> Similarity(docs, doc_word_sets),
     top_bigrams |-> TopBigrams(all_tokens),
     top_trigrams |-> TopTrigrams(all_tokens),
     readability |-> Readability(doc_avg_sentence_len, doc_avg_word_len)]

(***************************************************************************)
(* Records of the processed directory.                                     *)
(***************************************************************************)
OkRecord(t) == [kind |-> "ok", text |-> t]
NoTextRecord == [kind |-> "notext", text |-> <<>>]
MalformedRecord == [kind |-> "malformed", text |-> <<>>]
PartialRecord == [kind |-> "partial", text |-> <<>>]

\* json.load succeeds on the file.
Parses(rec) == rec.kind \in {"ok", "notext"}

\* obj.get("text", "")
TextOf(rec) == IF rec.kind = "ok" THEN rec.text ELSE <<>>

\* AddWords counting each distinct token of the document once.
AddWords_Distinct(total, tokens) == total + Cardinality(Range(tokens))

\* total_words += len(tokens)
AddWords(total, tokens) == total + Len(tokens)

(***************************************************************************)
(* The analyzer, analyze.py main().                                        *)
(***************************************************************************)
\* AnPoll going on to the listing whether the marker exists or not.
AnPoll_IgnoresMarker ==
    /\ anPc = "wait"
    /\ anPc' = "list"
    /\ UNCHANGED <<otherVars, raw, fetchDone, procVars, anErr, anData, reportFile, anMarker>>

\* while not os.path.exists(proc_done): sleep
AnPoll ==
    /\ anPc = "wait"
    /\ anPc' = IF procMarker THEN "list" ELSE "wait"
    /\ UNCHANGED <<otherVars, raw, fetchDone, procVars, anErr, anData, reportFile, anMarker>>

\* AnList without sorted(): the listing is in the order os.listdir returns,
\* which is arbitrary.
AnList_Unsorted ==
    /\ anPc = "list"
    /\ files' \in {f \in [1..Len(processed) -> 1..Len(processed)] :
                      \A i, j \in 1..Len(processed) : f[i] = f[j] => i = j}
    /\ idx' = 0
    /\ docs' = <<>>
    /\ all_tokens' = <<>>
    /\ doc_word_sets' = <<>>
    /\ total_words' = 0
    /\ doc_avg_sentence_len' = <<>>
    /\ doc_avg_word_len' = <<>>
    /\ anPc' = "ingest"
    /\ UNCHANGED <<otherVars, raw, fetchDone, procVars, anErr, report, reportFile, anMarker>>

\* files = sorted(listdir(processed_dir)), and the empty accumulators
AnList ==
    /\ anPc = "list"
    /\ files' = [i \in 1..Len(processed) |-> i]
    /\ idx' = 0
    /\ docs' = <<>>
    /\ all_tokens' = <<>>
    /\ doc_word_sets' = <<>>
    /\ total_words' = 0
    /\ doc_avg_sentence_len' = <<>>
    /\ doc_avg_word_len' = <<>>
    /\ anPc' = "ingest"
    /\ UNCHANGED <<otherVars, raw, fetchDone, procVars, anErr, report, reportFile, anMarker>>

\* one iteration of "for fn in files"
AnIngest ==
    /\ anPc = "ingest"
    /\ idx < Len(files)
    /\ LET fn == files[idx + 1]
           rec == processed[fn]
           tokens == tokenize(TextOf(rec))
       IN IF ~Parses(rec)
          THEN /\ anPc' = "failed"
               /\ anErr' = "ingest"
               /\ UNCHANGED <<idx, docs, all_tokens, doc_word_sets, total_words,
                              doc_avg_sentence_len, doc_avg_word_len>>
          ELSE /\ docs' = Append(docs, fn)
               /\ all_tokens' = all_tokens \o tokens
               /\ total_words' = AddWords(total_words, tokens)
               /\ doc_word_sets' = Append(doc_word_sets, Range(LowerAll(tokens)))
               /\ doc_avg_sentence_len' =
                     Append(doc_avg_sentence_len, avg(Lengths(SentenceTokens(TextOf(rec)))))
               /\ doc_avg_word_len' = Append(doc_avg_word_len, avg(Lengths(tokens)))
               /\ idx' = idx + 1
               /\ UNCHANGED <<anPc, anErr>>
    /\ UNCHANGED <<otherVars, raw, fetchDone, procVars, files, report, reportFile, anMarker>>

\* the statistics after the loop and the report object
AnCompute ==
    /\ anPc = "ingest"
    /\ idx = Len(files)
    /\ report' = BuildReport
    /\ anPc' = "open"
    /\ UNCHANGED <<otherVars, raw, fetchDone, procVars, anErr, files, idx, docs, all_tokens,
                   doc_word_sets, total_words, doc_avg_sentence_len,
                   doc_avg_word_len, reportFile, anMarker>>

\* open(out_path, "w") creates or truncates final_report.json
AnOpenReport ==
    /\ anPc = "open"
    /\ reportFile' = "partial"
    /\ anPc' = "dump"
    /\ UNCHANGED <<otherVars, raw, fetchDone, procVars, anErr, anData, anMarker>>

\* json.dump(report, f) and the close that ends the with block
AnDumpReport ==
    /\ anPc = "dump"
    /\ reportFile' = "complete"
    /\ anPc' = "marker"
    /\ UNCHANGED <<otherVars, raw, fetchDone, procVars, anErr, anData, anMarker>>

\* open(analyze_complete.json, "w")
AnOpenMarker ==
    /\ anPc = "marker"
    /\ anMarker' = "partial"
    /\ anPc' = "dumpMarker"
    /\ UNCHANGED <<otherVars, raw, fetchDone, procVars, anErr, anData, reportFile>>

\* json.dump of the marker, the close, and the final print
AnDumpMarker ==
    /\ anPc = "dumpMarker"
    /\ anMarker' = "complete"
    /\ anPc' = "done"
    /\ UNCHANGED <<otherVars, raw, fetchDone, procVars, anErr, anData, reportFile>>

\* AnReportWriteFails with the exception swallowed: the run goes on to the marker.
AnReportWriteFails_Swallowed ==
    /\ anPc \in {"open", "dump"}
    /\ anPc' = "marker"
    /\ anErr' = "report"
    /\ UNCHANGED <<otherVars, raw, fetchDone, procVars, anData, reportFile, anMarker>>

\* open or json.dump of the report raises OSError: main() ends with the exception
AnReportWriteFails ==
    /\ anPc \in {"open", "dump"}
    /\ anPc' = "failed"
    /\ anErr' = "report"
    /\ UNCHANGED <<otherVars, raw, fetchDone, procVars, anData, reportFile, anMarker>>

\* the process is killed by a signal: nothing handles it, nothing is cleaned up
AnAbort ==
    /\ anPc \notin {"done", "failed", "aborted"}
    /\ anPc' = "aborted"
    /\ UNCHANGED <<otherVars, raw, fetchDone, procVars, anErr, anData, reportFile, anMarker>>

\* main() is run again on the same /shared after a completed run: a new
\* process with fresh locals; the files of the earlier run are still there.
AnRunAgain ==
    /\ anPc = "done"
    /\ runs < MaxReruns
    /\ runs' = runs + 1
    /\ firstReport' = IF runs = 0 THEN report ELSE firstReport
    /\ anPc' = "wait"
    /\ anErr' = "none"
    /\ files' = <<>>
    /\ idx' = 0
    /\ docs' = <<>>
    /\ all_tokens' = <<>>
    /\ doc_word_sets' = <<>>
    /\ total_words' = 0
    /\ doc_avg_sentence_len' = <<>>
    /\ doc_avg_word_len' = <<>>
    /\ report' = NoReport
    /\ UNCHANGED <<scriptVars, raw, fetchDone, procVars, reportFile, anMarker>>

(***************************************************************************)
(* The inputs.  Four families of processed directories:                    *)
(*  - SmallCorpora: up to MaxDocs records of total weight up to MaxChars,  *)
(*    a record with text weighing its length (every text over Alphabet),   *)
(*    a record that does not parse or has no text field weighing 1;        *)
(*  - LetterCorpora: one document of up to MaxWords one-letter words in    *)
(*    non-increasing letter order, separated by blanks;                    *)
(*  - WideCorpora: one document of TopK-1 .. TopK+1 distinct two-letter    *)
(*    words, one of them possibly repeated at the end;                     *)
(*  - ManyFileCorpora: up to MaxFiles documents, each with one of the      *)
(*    texts of PageTexts.                                                  *)
(***************************************************************************)
Alphabet == {32, 45, 65, 97, 98}

RecordsOfWeight(w) ==
    {OkRecord(t) : t \in [1..w -> Alphabet]}
        \cup (IF w = 1 THEN {NoTextRecord, MalformedRecord} ELSE {})

RECURSIVE CorporaOf(_, _)
CorporaOf(d, budget) ==
    IF d = 0 THEN {<<>>}
    ELSE UNION {LET rest == CorporaOf(d - 1, budget - w)
                IN {<<r>> \o c : r \in RecordsOfWeight(w), c \in rest}
                  : w \in 0..budget}

SmallCorpora == UNION {CorporaOf(d, MaxChars) : d \in 0..MaxDocs}

Letters == 97..(97 + NumLetters - 1)

RECURSIVE DescendingWords(_, _)
DescendingWords(n, top) ==
    IF n = 0 THEN {<<>>}
    ELSE UNION {LET rest == DescendingWords(n - 1, l)
                IN {<<<<l>>>> \o ws : ws \in rest}
                  : l \in {x \in Letters : x <= top}}

LetterCorpora ==
    {<<OkRecord(JoinWords(ws))>> :
        ws \in UNION {DescendingWords(n, 97 + NumLetters) : n \in 1..MaxWords}}

TwoLetterWord(k) == <<97 + (k \div 26), 97 + (k % 26)>>

\* v distinct words, the later in the alphabet the earlier in the text, then
\* the words numbered in extra.
WideWords(v, extra) ==
    [i \in 1..(v + Len(extra)) |->
        IF i <= v THEN TwoLetterWord(v - i) ELSE TwoLetterWord(extra[i - v])]

WideCorpora ==
    {<<OkRecord(JoinWords(WideWords(v, extra)))>> :
        v \in (TopK - 1)..(TopK + 1),
        extra \in {<<>>, <<0>>, <<TopK - 2>>}}

PageTexts == {<<>>, <<97>>, <<65, 32, 98>>, <<98, 46, 32, 97, 32, 98, 33>>}

ManyFileCorpora ==
    UNION {[1..n -> {OkRecord(t) : t \in PageTexts}] : n \in 0..MaxFiles}

Directories == SmallCorpora \cup LetterCorpora \cup WideCorpora \cup ManyFileCorpora

AnInit ==
    /\ anPc = "wait"
    /\ anErr = "none"
    /\ files = <<>>
    /\ idx = 0
    /\ docs = <<>>
    /\ all_tokens = <<>>
    /\ doc_word_sets = <<>>
    /\ total_words = 0
    /\ doc_avg_sentence_len = <<>>
    /\ doc_avg_word_len = <<>>
    /\ report = NoReport
    /\ reportFile = "absent"
    /\ anMarker = "absent"
    /\ runs = 0
    /\ firstReport = NoReport

(***************************************************************************)
(* The scripts of problem1 and problem2 before they are started.           *)
(***************************************************************************)
EmptyDict == <<>>

NoSummary == [total_urls |-> -1]

NoCorpus == [papers_processed |-> -1]

GetIdle ==
    /\ rlPc = "idle"
    /\ max_attempts = 0
    /\ attempt = 0
    /\ last_attempt = 0
    /\ clock = 0
    /\ attemptStarts = <<>>
    /\ outcomes = <<>>

FpIdle ==
    /\ fpPc = "idle"
    /\ urls = <<>>
    /\ fpIdx = 0
    /\ responses = <<>>
    /\ status_dist = EmptyDict
    /\ successful = 0
    /\ failed = 0
    /\ errorLog = <<>>
    /\ summary = NoSummary

AxIdle ==
    /\ axPc = "idle"
    /\ entries = <<>>
    /\ axIdx = 0
    /\ papers_out = <<>>
    /\ total_words_all = 0
    /\ abstract_lengths = <<>>
    /\ global_vocab = {}
    /\ df_counts = EmptyDict
    /\ tf_counts = EmptyDict
    /\ uppercase_terms = {}
    /\ numeric_terms = {}
    /\ hyphen_terms = {}
    /\ category_distribution = EmptyDict
    /\ corpus = NoCorpus

(***************************************************************************)
(* SpecAgg: one analyzer run, left alone, over a processed directory that  *)
(* is already complete (process_complete.json exists).                     *)
(***************************************************************************)
InitAgg ==
    /\ raw = <<>>
    /\ fetchDone = TRUE
    /\ procPc = "done"
    /\ procFiles = <<>>
    /\ procIdx = 0
    /\ processed \in Directories
    /\ procMarker = TRUE
    /\ AnInit
    /\ GetIdle /\ FpIdle /\ AxIdle

NextAgg ==
    \/ AnPoll
    \/ AnList
    \/ AnIngest
    \/ AnCompute
    \/ AnOpenReport
    \/ AnDumpReport
    \/ AnOpenMarker
    \/ AnDumpMarker

SpecAgg == InitAgg /\ [][NextAgg]_vars

(***************************************************************************)
(* SpecTwoRuns: as SpecAgg, and the analyzer is run again over the same    *)
(* processed directory once it has completed.                              *)
(***************************************************************************)
NextTwoRuns ==
    \/ AnPoll
    \/ AnList
    \/ AnIngest
    \/ AnCompute
    \/ AnOpenReport
    \/ AnDumpReport
    \/ AnOpenMarker
    \/ AnDumpMarker
    \/ AnRunAgain

SpecTwoRuns == InitAgg /\ [][NextTwoRuns]_vars

(***************************************************************************)
(* The fetcher, fetch.py main(): the raw pages are in place when it writes *)
(* status/fetch_complete.json.                                             *)
(***************************************************************************)
FetcherDone ==
    /\ ~fetchDone
    /\ fetchDone' = TRUE
    /\ UNCHANGED <<otherVars, raw, procVars, anVars>>

(***************************************************************************)
(* The processor, process.py main().                                       *)
(***************************************************************************)
\* while not os.path.exists(fetch_done): sleep
ProcPoll ==
    /\ procPc = "wait"
    /\ procPc' = IF fetchDone THEN "list" ELSE "wait"
    /\ UNCHANGED <<otherVars, raw, fetchDone, procFiles, procIdx, processed, procMarker, anVars>>

\* files = sorted(listdir(raw_dir)); processed = []
ProcList ==
    /\ procPc = "list"
    /\ procFiles' = [i \in 1..Len(raw) |-> i]
    /\ procIdx' = 0
    /\ procPc' = "loop"
    /\ UNCHANGED <<otherVars, raw, fetchDone, processed, procMarker, anVars>>

\* an iteration up to open(out_path, "w"): page_<i>.json exists and is empty
ProcOpenDoc ==
    /\ procPc = "loop"
    /\ procIdx < Len(procFiles)
    /\ processed' = Append(processed, PartialRecord)
    /\ procPc' = "dump"
    /\ UNCHANGED <<otherVars, raw, fetchDone, procFiles, procIdx, procMarker, anVars>>

\* json.dump(out_obj, wf), the close, processed.append(out_name)
ProcDumpDoc ==
    /\ procPc = "dump"
    /\ processed' = [processed EXCEPT ![procIdx + 1] = OkRecord(raw[procFiles[procIdx + 1]])]
    /\ procIdx' = procIdx + 1
    /\ procPc' = "loop"
    /\ UNCHANGED <<otherVars, raw, fetchDone, procFiles, procMarker, anVars>>

\* ProcWriteMarker with the marker written inside the loop, before the last
\* document is written.
ProcWriteMarker_Early ==
    /\ procPc = "loop"
    /\ procMarker' = TRUE
    /\ procPc' = IF procIdx = Len(procFiles) THEN "done" ELSE "loop"
    /\ UNCHANGED <<otherVars, raw, fetchDone, procFiles, procIdx, processed, anVars>>

\* after the loop: open(process_complete.json, "w") and the dump of the status
ProcWriteMarker ==
    /\ procPc = "loop"
    /\ procIdx = Len(procFiles)
    /\ procMarker' = TRUE
    /\ procPc' = "done"
    /\ UNCHANGED <<otherVars, raw, fetchDone, procFiles, procIdx, processed, anVars>>

\* the processor is killed by a signal
ProcAbort ==
    /\ procPc \notin {"done", "aborted"}
    /\ procPc' = "aborted"
    /\ UNCHANGED <<otherVars, raw, fetchDone, procFiles, procIdx, processed, procMarker, anVars>>

(***************************************************************************)
(* Spec: the processor and the analyzer started together on an empty       *)
(* /shared/processed, /shared/analysis and /shared/status, in every        *)
(* interleaving, with write failures of the report and signals.            *)
(***************************************************************************)
Init ==
    /\ raw \in UNION {[1..n -> PageTexts] : n \in 0..MaxPages}
    /\ fetchDone = FALSE
    /\ procPc = "wait"
    /\ procFiles = <<>>
    /\ procIdx = 0
    /\ processed = <<>>
    /\ procMarker = FALSE
    /\ AnInit
    /\ GetIdle /\ FpIdle /\ AxIdle

Next ==
    \/ FetcherDone
    \/ ProcPoll
    \/ ProcList
    \/ ProcOpenDoc
    \/ ProcDumpDoc
    \/ ProcWriteMarker
    \/ ProcAbort
    \/ AnPoll
    \/ AnList
    \/ AnIngest
    \/ AnCompute
    \/ AnOpenReport
    \/ AnDumpReport
    \/ AnOpenMarker
    \/ AnDumpMarker
    \/ AnReportWriteFails
    \/ AnAbort

Spec == Init /\ [][Next]_vars

(***************************************************************************)
(* SpecLive: the pipeline as in Spec when every file operation succeeds    *)
(* and no signal reaches the analyzer.  The analyzer is a sequential       *)
(* process that the operating system keeps scheduling: its next step is    *)
(* eventually taken (weak fairness).  The processor may stop for good      *)
(* (ProcAbort), and nothing is assumed about its progress.                 *)
(***************************************************************************)
AnalyzerStep ==
    \/ AnPoll
    \/ AnList
    \/ AnIngest
    \/ AnCompute
    \/ AnOpenReport
    \/ AnDumpReport
    \/ AnOpenMarker
    \/ AnDumpMarker

NextLive ==
    \/ FetcherDone
    \/ ProcPoll
    \/ ProcList
    \/ ProcOpenDoc
    \/ ProcDumpDoc
    \/ ProcWriteMarker
    \/ ProcAbort
    \/ AnPoll
    \/ AnList
    \/ AnIngest
    \/ AnCompute
    \/ AnOpenReport
    \/ AnDumpReport
    \/ AnOpenMarker
    \/ AnDumpMarker

SpecLive == Init /\ [][NextLive]_vars /\ WF_vars(AnalyzerStep)

(***************************************************************************)
(* The pipeline before it is started, for the specifications of the        *)
(* scripts.                                                                *)
(***************************************************************************)
PipelineIdle ==
    /\ raw = <<>>
    /\ fetchDone = FALSE
    /\ procPc = "wait"
    /\ procFiles = <<>>
    /\ procIdx = 0
    /\ processed = <<>>
    /\ procMarker = FALSE
    /\ AnInit

(***************************************************************************)
(* problem2/arxiv_processor.py, rate_limited_get.  Time is in whole        *)
(* seconds.  clock is the time elapsed since the call; a reading of        *)
(* time.time() is the wall clock, which is the elapsed time plus the epoch *)
(* of the call plus an adjustment of up to MaxSkew seconds either way that *)
(* may differ from one reading to the next.  time.sleep(t) returns after t *)
(* seconds or up to MaxOversleep later, urlopen after up to MaxLatency.    *)
(***************************************************************************)
Epoch == 1000

Skews == (0 - MaxSkew)..MaxSkew

\* How an attempt can end: urlopen and read return (a response), HTTPError
\* with code 429, HTTPError with another code, an exception without code.
Outcomes == {"response", "http429", "httpError", "urlError"}

\* code = getattr(ex, "code", None); code == 429
Is429(o) == o = "http429"

\* wait = max(0.0, 3.0 - (now - last_attempt)) if last_attempt > 0 else 0.0
WaitFor(now, last) == IF last > 0 THEN Max(0, MinGap - (now - last)) ELSE 0

\* time.sleep(t), t > 0: the seconds it can take
SleepTimes(t) == t..(t + MaxOversleep)

\* the call rate_limited_get(url, headers, timeout, log_path, max_attempts)
RlCall ==
    /\ rlPc = "idle"
    /\ max_attempts' \in 0..DefaultMaxAttempts
    /\ attempt' = 1
    /\ last_attempt' = 0
    /\ rlPc' = "head"
    /\ UNCHANGED <<pipelineVars, fpVars, axVars, clock, attemptStarts, outcomes>>

\* the head of an iteration: now, wait, the sleep if wait > 0, last_attempt
RlBegin ==
    /\ rlPc = "head"
    /\ attempt <= max_attempts
    /\ \E skNow \in Skews, skLast \in Skews :
          LET now == Epoch + clock + skNow
              wait == WaitFor(now, last_attempt)
          IN \E slept \in (IF wait > 0 THEN SleepTimes(wait) ELSE {0}) :
                /\ clock' = clock + slept
                /\ last_attempt' = Epoch + clock + slept + skLast
                /\ attemptStarts' = Append(attemptStarts, clock + slept)
    /\ rlPc' = "request"
    /\ UNCHANGED <<pipelineVars, fpVars, axVars, max_attempts, attempt, outcomes>>

\* RlRequest retrying after any exception while attempts remain.
RlRequest_RetriesAnyError ==
    /\ rlPc = "request"
    /\ \E d \in 0..MaxLatency, o \in Outcomes :
          /\ clock' = clock + d
          /\ outcomes' = Append(outcomes, o)
          /\ rlPc' = IF o = "response" THEN "returned"
                     ELSE IF attempt < max_attempts THEN "sleep429"
                     ELSE "raised"
    /\ UNCHANGED <<pipelineVars, fpVars, axVars, max_attempts, attempt, last_attempt, attemptStarts>>

\* urlopen and the read: return on a response; on an exception go on to the
\* sleep if it is a 429 and attempts remain, re-raise otherwise
RlRequest ==
    /\ rlPc = "request"
    /\ \E d \in 0..MaxLatency, o \in Outcomes :
          /\ clock' = clock + d
          /\ outcomes' = Append(outcomes, o)
          /\ rlPc' = IF o = "response" THEN "returned"
                     ELSE IF Is429(o) /\ attempt < max_attempts THEN "sleep429"
                     ELSE "raised"
    /\ UNCHANGED <<pipelineVars, fpVars, axVars, max_attempts, attempt, last_attempt, attemptStarts>>

\* the log line, time.sleep(3.0) and continue
RlSleep429 ==
    /\ rlPc = "sleep429"
    /\ \E slept \in SleepTimes(MinGap) : clock' = clock + slept
    /\ attempt' = attempt + 1
    /\ rlPc' = "head"
    /\ UNCHANGED <<pipelineVars, fpVars, axVars, max_attempts, last_attempt, attemptStarts, outcomes>>

\* range(1, max_attempts + 1) is exhausted: the function ends without return
RlExhausted ==
    /\ rlPc = "head"
    /\ attempt > max_attempts
    /\ rlPc' = "fellOff"
    /\ UNCHANGED <<pipelineVars, fpVars, axVars, max_attempts, attempt, last_attempt,
                   clock, attemptStarts, outcomes>>

InitGet == PipelineIdle /\ GetIdle /\ FpIdle /\ AxIdle

NextGet ==
    \/ RlCall
    \/ RlBegin
    \/ RlRequest
    \/ RlSleep429
    \/ RlExhausted

SpecGet == InitGet /\ [][NextGet]_vars

(***************************************************************************)
(* problem1/fetch_and_process.py, main.  A URL is one stripped, non-empty  *)
(* line of the input file; nothing checks that it is well formed.  The     *)
(* record of a URL carries url, status_code and error; the timestamps, the *)
(* response times and the byte and word counts are left out, and so are    *)
(* the two sums built from them.  A key str(status) of status_dist is      *)
(* written as the status itself.  errors.log is appended to during the     *)
(* loop; responses.json and summary.json are written when fpPc = "done".   *)
(***************************************************************************)
HttpUrls == {"http://a.example/", "http://b.example/"}

FileUrls == {"file:///tmp/f"}

NoSchemeUrls == {"a.example"}

Urls == HttpUrls \cup FileUrls \cup NoSchemeUrls

UrlLists == UNION {[1..n -> Urls] : n \in 0..MaxUrls}

\* What can come of one URL.  request.Request raises ValueError ("unknown
\* url type") for a URL without a scheme.  urlopen returns a response; for
\* an http URL its code is 2xx (the default opener raises HTTPError for any
\* other), for a file URL getcode() is None.  Or urlopen raises HTTPError
\* with a code, URLError, or something else (a timeout while reading).
Fetched(k, has, c) == [kind |-> k, hasCode |-> has, code |-> c]

FetchOutcomes(url) ==
    IF url \in NoSchemeUrls THEN {Fetched("requestRaises", FALSE, 0)}
    ELSE IF url \in HttpUrls
    THEN {Fetched("response", TRUE, 200), Fetched("response", TRUE, 204),
          Fetched("httpError", TRUE, 404), Fetched("httpError", TRUE, 500),
          Fetched("urlError", FALSE, 0), Fetched("exception", FALSE, 0)}
    ELSE {Fetched("response", FALSE, 0), Fetched("urlError", FALSE, 0)}

\* status = resp.getcode() or 0;  status = int(getattr(e, "code", 0) or 0)
CodeOrZero(o) == IF o.hasCode THEN o.code ELSE 0

\* 200 <= status <= 299
Is2xx(status) == 200 <= status /\ status <= 299

NoError == "None"

\* d[k] = d.get(k, 0) + 1
DictGet(d, k) == IF k \in DOMAIN d THEN d[k] ELSE 0

DictIncr(d, k) == [x \in DOMAIN d \cup {k} |-> IF x = k THEN DictGet(d, k) + 1 ELSE d[x]]

\* record["error"] as each branch sets it
ErrorText(o) ==
    IF o.kind = "response"
    THEN IF Is2xx(CodeOrZero(o)) THEN NoError ELSE "HTTP: Non-2xx response"
    ELSE IF o.kind = "httpError" THEN "HTTPError"
    ELSE IF o.kind = "urlError" THEN "URLError"
    ELSE "Exception"

\* the record once its branch has run
RecordOf(url, o) ==
    [url |-> url,
     status_code |-> IF o.kind \in {"response", "httpError"} THEN CodeOrZero(o) ELSE 0,
     error |-> ErrorText(o)]

\* read_urls and the initialisations
FpStart ==
    /\ fpPc = "idle"
    /\ urls' \in UrlLists
    /\ fpIdx' = 1
    /\ responses' = <<>>
    /\ status_dist' = EmptyDict
    /\ successful' = 0
    /\ failed' = 0
    /\ errorLog' = <<>>
    /\ fpPc' = "loop"
    /\ UNCHANGED <<pipelineVars, getVars, axVars, summary>>

\* one iteration of the loop over urls
FpIteration ==
    /\ fpPc = "loop"
    /\ fpIdx <= Len(urls)
    /\ \E o \in FetchOutcomes(urls[fpIdx]) :
          LET url == urls[fpIdx]
              rec == RecordOf(url, o)
              counted == o.kind \in {"response", "httpError"}
              ok == o.kind = "response" /\ Is2xx(CodeOrZero(o))
          IN IF o.kind = "requestRaises"
             THEN /\ fpPc' = "crashed"
                  /\ UNCHANGED <<fpIdx, responses, status_dist, successful, failed,
                                 errorLog>>
             ELSE /\ status_dist' = IF counted
                                     THEN DictIncr(status_dist, CodeOrZero(o))
                                     ELSE status_dist
                  /\ successful' = IF ok THEN successful + 1 ELSE successful
                  /\ failed' = IF ok THEN failed ELSE failed + 1
                  /\ errorLog' = IF ok THEN errorLog
                                  ELSE Append(errorLog, [url |-> url, msg |-> rec.error])
                  /\ responses' = Append(responses, rec)
                  /\ fpIdx' = fpIdx + 1
                  /\ fpPc' = "loop"
    /\ UNCHANGED <<pipelineVars, getVars, axVars, urls, summary>>

\* the summary and the two write_json calls
FpFinish ==
    /\ fpPc = "loop"
    /\ fpIdx > Len(urls)
    /\ summary' = [total_urls |-> Len(urls),
                   successful_requests |-> successful,
                   failed_requests |-> failed,
                   status_code_distribution |-> status_dist]
    /\ fpPc' = "done"
    /\ UNCHANGED <<pipelineVars, getVars, axVars, urls, fpIdx, responses, status_dist,
                   successful, failed, errorLog>>

InitFetch == PipelineIdle /\ GetIdle /\ FpIdle /\ AxIdle

NextFetch ==
    \/ FpStart
    \/ FpIteration
    \/ FpFinish

SpecFetch == InitFetch /\ [][NextFetch]_vars

(***************************************************************************)
(* problem2/arxiv_processor.py, main: the loop over the entries of the     *)
(* feed and the corpus object.  A text is a sequence of code points; the   *)
(* None of get_text and of a missing attribute is the empty text, which    *)
(* every test of the code treats like None.  An entry carries id, title,   *)
(* summary and the term attributes of its category elements; a paper       *)
(* carries arxiv_id, title, abstract, categories and, of abstract_stats,   *)
(* total_words and unique_words.  Authors, dates, the sentence statistics  *)
(* and the log are left out.  A dictionary is a function on its keys.      *)
(***************************************************************************)
STOPWORDS ==
    {<<116, 104, 101>>, <<97>>, <<97, 110>>, <<97, 110, 100>>, <<111, 114>>,
     <<98, 117, 116>>, <<105, 110>>, <<111, 110>>, <<97, 116>>, <<116, 111>>,
     <<102, 111, 114>>, <<111, 102>>, <<119, 105, 116, 104>>, <<98, 121>>,
     <<102, 114, 111, 109>>, <<117, 112>>, <<97, 98, 111, 117, 116>>,
     <<105, 110, 116, 111>>, <<116, 104, 114, 111, 117, 103, 104>>,
     <<100, 117, 114, 105, 110, 103>>, <<105, 115>>, <<97, 114, 101>>,
     <<119, 97, 115>>, <<119, 101, 114, 101>>, <<98, 101>>,
     <<98, 101, 101, 110>>, <<98, 101, 105, 110, 103>>,
     <<104, 97, 118, 101>>, <<104, 97, 115>>, <<104, 97, 100>>, <<100, 111>>,
     <<100, 111, 101, 115>>, <<100, 105, 100>>, <<119, 105, 108, 108>>,
     <<119, 111, 117, 108, 100>>, <<99, 111, 117, 108, 100>>,
     <<115, 104, 111, 117, 108, 100>>, <<109, 97, 121>>,
     <<109, 105, 103, 104, 116>>, <<99, 97, 110>>, <<116, 104, 105, 115>>,
     <<116, 104, 97, 116>>, <<116, 104, 101, 115, 101>>,
     <<116, 104, 111, 115, 101>>, <<105>>, <<121, 111, 117>>, <<104, 101>>,
     <<115, 104, 101>>, <<105, 116>>, <<119, 101>>, <<116, 104, 101, 121>>,
     <<119, 104, 97, 116>>, <<119, 104, 105, 99, 104>>, <<119, 104, 111>>,
     <<119, 104, 101, 110>>, <<119, 104, 101, 114, 101>>, <<119, 104, 121>>,
     <<104, 111, 119>>, <<97, 108, 108>>, <<101, 97, 99, 104>>,
     <<101, 118, 101, 114, 121>>, <<98, 111, 116, 104>>, <<102, 101, 119>>,
     <<109, 111, 114, 101>>, <<109, 111, 115, 116>>,
     <<111, 116, 104, 101, 114>>, <<115, 111, 109, 101>>,
     <<115, 117, 99, 104>>, <<97, 115>>, <<97, 108, 115, 111>>,
     <<118, 101, 114, 121>>, <<116, 111, 111>>, <<111, 110, 108, 121>>,
     <<115, 111>>, <<116, 104, 97, 110>>, <<110, 111, 116>>}

\* The terms "cs.AI" and "cs.LG".
CsAI == <<99, 115, 46, 65, 73>>

CsLG == <<99, 115, 46, 76, 71>>

CategoryLists == {<<>>, <<CsLG>>, <<CsLG, CsAI>>}

\* The summaries: none, "b a b", " A-b  1".
Summaries == {<<>>, <<98, 32, 97, 32, 98>>, <<32, 65, 45, 98, 32, 32, 49>>}

\* The id "x/1" and the title "T".
FullId == <<120, 47, 49>>

FullTitle == <<84>>

Entry(i, t, s, c) == [id |-> i, title |-> t, summary |-> s, categories |-> c]

EntrySet ==
    {Entry(FullId, FullTitle, s, c) : s \in Summaries, c \in CategoryLists}
        \cup {Entry(<<>>, FullTitle, <<98, 32, 97, 32, 98>>, c) : c \in CategoryLists}
        \cup {Entry(FullId, <<>>, <<98, 32, 97, 32, 98>>, c) : c \in CategoryLists}

EntryLists == UNION {[1..n -> EntrySet] : n \in 0..MaxEntries}

\* Where the processing of an entry can raise: nowhere, before the loop over
\* its categories, or after it and before the accumulators (252-259).
RaisePoints == {"none", "early", "late"}

\* re.sub(r"\s+", " ", (s or "").strip())
normalize_ws(s) ==
    LET t == strip(s)
        keep == {i \in 1..Len(t) : ~(IsSpace(t[i]) /\ i > 1 /\ IsSpace(t[i - 1]))}
        Nth(m) == CHOOSE i \in keep : Cardinality({x \in keep : x < i}) = m - 1
    IN [m \in 1..Cardinality(keep) |-> IF IsSpace(t[Nth(m)]) THEN 32 ELSE t[Nth(m)]]

\* eid_full.rsplit("/", 1)[-1]
LastSegment(s) ==
    LET slashes == {i \in 1..Len(s) : s[i] = 47}
    IN IF slashes = {} THEN s
       ELSE SubSeq(s, (CHOOSE i \in slashes : \A j \in slashes : j <= i) + 1, Len(s))

\* re.findall(r"\b(?=[\w-]*[A-Z])[\w-]+\b", text) as a set.  The lookahead
\* runs over the characters the token is taken from, and a hyphen is no
\* capital, so the matches are the tokens that hold a capital letter.
extract_terms_upper(text) ==
    {t \in Range(tokenize(text)) : \E i \in 1..Len(t) : t[i] \in 65..90}

\* re.findall(r"\b(?=[\w-]*\d)[\w-]+\b", text) as a set
extract_terms_numeric(text) ==
    {t \in Range(tokenize(text)) : \E i \in 1..Len(t) : t[i] \in 48..57}

\* re.findall(r"\b\w+(?:-\w+)+\b", text) as a set: the maximal chains of
\* words joined by single hyphens, those of two words or more.
extract_terms_hyphen(text) ==
    LET Joins(i) == i \in 1..Len(text) /\ text[i] = 45
                        /\ IsWordAt(text, i - 1) /\ IsWordAt(text, i + 1)
        InChain(i) == IsWordAt(text, i) \/ Joins(i)
        first == {i \in 1..Len(text) : InChain(i) /\ ~InChain(i - 1)}
        EndOf(b) == CHOOSE e \in b..Len(text) :
                        /\ \A j \in b..e : InChain(j)
                        /\ ~InChain(e + 1)
    IN {SubSeq(text, b, EndOf(b)) : b \in {i \in first : \E j \in i..EndOf(i) : text[j] = 45}}

\* the stripped, non-empty terms of the category elements, in order
Terms(cats) ==
    LET stripped == [k \in 1..Len(cats) |-> strip(cats[k])]
    IN SelectSeq(stripped, LAMBDA t : t # <<>>)

\* category_distribution[term] = category_distribution.get(term, 0) + 1, for
\* every term of the entry
CountCategories(cd, cats) ==
    [t \in DOMAIN cd \cup Range(cats) |->
        DictGet(cd, t) + Cardinality({k \in 1..Len(cats) : cats[k] = t})]

\* for t in set(tokens_lower): df_counts[t] = df_counts.get(t, 0) + 1
DfUpdate(df, toks) ==
    [w \in DOMAIN df \cup Range(toks) |->
        DictGet(df, w) + (IF w \in Range(toks) THEN 1 ELSE 0)]

\* for t in tokens_lower: if t not in STOPWORDS: tf_counts[t] = ... + 1
TfUpdate(tf, toks) ==
    LET content == {k \in 1..Len(toks) : toks[k] \notin STOPWORDS}
    IN [w \in DOMAIN tf \cup {toks[k] : k \in content} |->
           DictGet(tf, w) + Cardinality({k \in content : toks[k] = w})]

\* a < b for two str: the order of the code points
StrLess(a, b) ==
    \E k \in 1..Len(b) :
        /\ k <= Len(a) + 1
        /\ \A j \in 1..(k - 1) : a[j] = b[j]
        /\ k <= Len(a) => a[k] < b[k]

\* sorted(S) for a set of str
SortedTerms(S) ==
    LET Nth(m) == CHOOSE t \in S : Cardinality({u \in S : StrLess(u, t)}) = m - 1
    IN [m \in 1..Cardinality(S) |-> Nth(m)]

\* sorted(tf_counts.items(), key=lambda kv: (-kv[1], kv[0]))[:50], each
\* with its document frequency
Top50(tf, df) ==
    LET Before(u, w) == tf[u] > tf[w] \/ (tf[u] = tf[w] /\ StrLess(u, w))
        Nth(m) == CHOOSE w \in DOMAIN tf :
                      Cardinality({u \in DOMAIN tf : Before(u, w)}) = m - 1
    IN [m \in 1..Min(TopWordsN, Cardinality(DOMAIN tf)) |->
           [word |-> Nth(m), frequency |-> tf[Nth(m)], documents |-> DictGet(df, Nth(m))]]

\* dict(sorted((k, int(v)) for k, v in category_distribution.items()))
SortedItems(cd) ==
    [m \in 1..Cardinality(DOMAIN cd) |->
        [term |-> SortedTerms(DOMAIN cd)[m], count |-> cd[SortedTerms(DOMAIN cd)[m]]]]

\* max(abstract_lengths) and min(abstract_lengths), of a non-empty list
MaxOf(q) == CHOOSE x \in Range(q) : \A y \in Range(q) : y <= x

MinOf(q) == CHOOSE x \in Range(q) : \A y \in Range(q) : x <= y

\* the corpus object of a run that emitted no paper
ZeroCorpus ==
    [papers_processed |-> 0,
     total_words |-> 0,
     unique_words_global |-> 0,
     avg_abstract_length |-> 0,
     longest_abstract_words |-> 0,
     shortest_abstract_words |-> 0,
     top_50_words |-> <<>>,
     uppercase_terms |-> <<>>,
     numeric_terms |-> <<>>,
     hyphenated_terms |-> <<>>,
     category_distribution |-> <<>>]

\* the fetch and the parse of the feed, and the initialisations
AxStart ==
    /\ axPc = "idle"
    /\ entries' \in EntryLists
    /\ axIdx' = 1
    /\ papers_out' = <<>>
    /\ total_words_all' = 0
    /\ abstract_lengths' = <<>>
    /\ global_vocab' = {}
    /\ df_counts' = EmptyDict
    /\ tf_counts' = EmptyDict
    /\ uppercase_terms' = {}
    /\ numeric_terms' = {}
    /\ hyphen_terms' = {}
    /\ category_distribution' = EmptyDict
    /\ axPc' = "loop"
    /\ UNCHANGED <<pipelineVars, getVars, fpVars, corpus>>

\* one iteration of the loop over entries: the categories are counted, then
\* the entry is skipped (a required field is missing, or something raised)
\* or its abstract is added to the accumulators and its paper is emitted
AxEntry ==
    /\ axPc = "loop"
    /\ axIdx <= Len(entries)
    /\ \E raised \in RaisePoints :
          LET entry == entries[axIdx]
              categories == Terms(entry.categories)
              skipped == \/ raised # "none"
                         \/ entry.id = <<>> \/ entry.summary = <<>> \/ entry.title = <<>>
              abstract_norm == normalize_ws(entry.summary)
              tokens_lower == LowerAll(tokenize(abstract_norm))
          IN /\ category_distribution' =
                    IF raised = "early" THEN category_distribution
                    ELSE CountCategories(category_distribution, categories)
             /\ IF skipped
                THEN UNCHANGED <<papers_out, total_words_all, abstract_lengths,
                                 global_vocab, df_counts, tf_counts, uppercase_terms,
                                 numeric_terms, hyphen_terms>>
                ELSE /\ total_words_all' = total_words_all + Len(tokens_lower)
                     /\ abstract_lengths' = Append(abstract_lengths, Len(tokens_lower))
                     /\ df_counts' = DfUpdate(df_counts, tokens_lower)
                     /\ tf_counts' = TfUpdate(tf_counts, tokens_lower)
                     /\ global_vocab' = global_vocab \cup Range(tokens_lower)
                     /\ uppercase_terms' =
                            uppercase_terms \cup extract_terms_upper(abstract_norm)
                     /\ numeric_terms' =
                            numeric_terms \cup extract_terms_numeric(abstract_norm)
                     /\ hyphen_terms' =
                            hyphen_terms \cup extract_terms_hyphen(abstract_norm)
                     /\ papers_out' = Append(papers_out,
                           [arxiv_id |-> LastSegment(entry.id),
                            title |-> normalize_ws(entry.title),
                            abstract |-> abstract_norm,
                            categories |-> categories,
                            abstract_stats |->
                                [total_words |-> Len(tokens_lower),
                                 unique_words |-> Cardinality(Range(tokens_lower))]])
    /\ axIdx' = axIdx + 1
    /\ UNCHANGED <<pipelineVars, getVars, fpVars, axPc, entries, corpus>>

\* papers.json and the corpus object, written to corpus_analysis.json
AxFinish ==
    /\ axPc = "loop"
    /\ axIdx > Len(entries)
    /\ corpus' =
          IF Len(papers_out) = 0 THEN ZeroCorpus
          ELSE [papers_processed |-> Len(papers_out),
                total_words |-> total_words_all,
                unique_words_global |-> Cardinality(global_vocab),
                avg_abstract_length |-> Round3(total_words_all, Len(papers_out)),
                longest_abstract_words |-> MaxOf(abstract_lengths),
                shortest_abstract_words |-> MinOf(abstract_lengths),
                top_50_words |-> Top50(tf_counts, df_counts),
                uppercase_terms |-> SortedTerms(uppercase_terms),
                numeric_terms |-> SortedTerms(numeric_terms),
                hyphenated_terms |-> SortedTerms(hyphen_terms),
                category_distribution |-> SortedItems(category_distribution)]
    /\ axPc' = "done"
    /\ UNCHANGED <<pipelineVars, getVars, fpVars, entries, axIdx, papers_out,
                   axAccumulators>>

InitArxiv == PipelineIdle /\ GetIdle /\ FpIdle /\ AxIdle

NextArxiv ==
    \/ AxStart
    \/ AxEntry
    \/ AxFinish

SpecArxiv == InitArxiv /\ [][NextArxiv]_vars

(***************************************************************************)
(* Claims about the pipeline (Spec).                                       *)
(***************************************************************************)

\* C1: analyze_complete.json exists only if final_report.json has been fully
\* written by this run: the marker write attemptStarts only after the report write
\* has finished, and a failed report write leaves the marker unwritten and
\* the run failed.  This holds in every state, also after a signal.
C1_MarkerOnlyAfterReport ==
    /\ anMarker # "absent" => reportFile = "complete"
    /\ anPc \in {"marker", "dumpMarker", "done"} => reportFile = "complete"
    /\ anErr = "report" => anMarker = "absent" /\ anPc = "failed"

\* The marker has been written by a run that completed.
C1_Witness == anPc = "done" /\ anMarker = "complete" /\ reportFile = "complete"

\* C2: after the analyzer is terminated by a signal, final_report.json is
\* absent or holds a complete report.
C2_NoPartialReportAfterAbort ==
    anPc = "aborted" => reportFile \in {"absent", "complete"}

\* C4: the processor writes process_complete.json only after every processed
\* document is completely written, the analyzer lists and reads the processed
\* directory only after it has seen the marker, and what it lists and ingests
\* is every document the processor produced, each complete.
C4_IngestsFullSet ==
    /\ procMarker =>
          /\ Len(processed) = Len(raw)
          /\ \A i \in 1..Len(raw) : processed[i] = OkRecord(raw[i])
    /\ anPc \in {"list", "ingest", "open", "dump", "marker", "dumpMarker", "done", "failed"}
          => procMarker
    /\ anPc \in {"ingest", "open", "dump", "marker", "dumpMarker", "done", "failed"}
          => files = [i \in 1..Len(raw) |-> i]
    /\ files # <<>> => procMarker
    /\ anErr # "ingest"
    /\ anPc \in {"open", "dump", "marker", "dumpMarker", "done"}
          => /\ docs = files
             /\ report.documents_processed = Len(raw)

\* The analyzer has completed over a directory of at least two documents.
C4_Witness == anPc = "done" /\ Len(raw) >= 2 /\ Len(docs) = Len(raw)

(***************************************************************************)
(* Claims about the report (SpecAgg).  What the report should hold is      *)
(* computed here from the processed directory, not from the analyzer's     *)
(* variables.                                                              *)
(***************************************************************************)
DocTokens(i) == tokenize(TextOf(processed[i]))

DocTokenSet(i) == {lower(t) : t \in Range(DocTokens(i))}

RECURSIVE SumTokens(_)
SumTokens(n) == IF n = 0 THEN 0 ELSE SumTokens(n - 1) + Len(DocTokens(n))

\* The lower-cased tokens of documents 1..n, in order.
RECURSIVE CorpusStream(_)
CorpusStream(n) == IF n = 0 THEN <<>> ELSE CorpusStream(n - 1) \o LowerAll(DocTokens(n))

Occurrences(stream, w) == Cardinality({k \in 1..Len(stream) : stream[k] = w})

FirstIndex(stream, w) ==
    CHOOSE k \in 1..Len(stream) : stream[k] = w /\ \A j \in 1..(k - 1) : stream[j] # w

\* a < b in the lexicographic order of the code points (Python's str order).
LexLess(a, b) ==
    \E k \in 1..(Len(b)) :
        /\ \A j \in 1..(k - 1) : j <= Len(a) /\ a[j] = b[j]
        /\ \/ k = Len(a) + 1
           \/ k <= Len(a) /\ a[k] < b[k]

RECURSIVE SumFrequencies(_, _)
SumFrequencies(top, n) ==
    IF n = 0 THEN 0 ELSE SumFrequencies(top, n - 1) + top[n].frequency

GoodRecords == {i \in 1..Len(processed) : processed[i].kind = "ok"}

\* C3: with a record that fails to parse or lacks the text field, the run does
\* not abort, the offending document is skipped (not counted in
\* documents_processed, in no similarity pair) and the report is computed
\* from the remaining documents.
C3_SkipsBadRecords ==
    /\ anPc # "failed"
    /\ anPc = "done" =>
          /\ report.documents_processed = Cardinality(GoodRecords)
          /\ \A k \in 1..Len(report.document_similarity) :
                /\ report.document_similarity[k].doc1 \in GoodRecords
                /\ report.document_similarity[k].doc2 \in GoodRecords

\* C5: total_words of the report is the sum over the ingested documents of
\* the number of tokens of the document's text.
C5_TotalWords ==
    anPc = "done" =>
        /\ Len(docs) = Len(processed)
        /\ report.total_words = SumTokens(Len(processed))

\* Two documents with tokens, one of them with several.
C5_Witness ==
    /\ anPc = "done"
    /\ \E i, j \in 1..Len(docs) : i # j /\ Len(DocTokens(i)) >= 2 /\ Len(DocTokens(j)) >= 1
    /\ report.total_words >= 3

\* C6: unique_words is the number of distinct lower-cased tokens of all
\* documents, and never exceeds total_words.
C6_UniqueWords ==
    anPc = "done" =>
        /\ report.unique_words
              = Cardinality(UNION {DocTokenSet(i) : i \in 1..Len(processed)})
        /\ report.unique_words <= report.total_words

\* A corpus in which two tokens differ only by case.
C6_Witness ==
    /\ anPc = "done"
    /\ report.unique_words < Cardinality(Range(all_tokens))
    /\ report.unique_words < report.total_words

\* The entries of top are the first Min(TopK, distinct words) words of the
\* corpus in the order Before, each with its number of occurrences.
TopIsPrefixOf(top, stream, Before(_, _)) ==
    /\ Len(top) = Min(TopK, Cardinality(Range(stream)))
    /\ \A i \in 1..Len(top) :
          /\ top[i].word \in Range(stream)
          /\ top[i].count = Occurrences(stream, top[i].word)
    /\ \A i \in 1..(Len(top) - 1) : Before(top[i], top[i + 1])
    /\ Len(top) > 0 =>
          \A w \in Range(stream) \ {top[i].word : i \in 1..Len(top)} :
              Before(top[Len(top)], [word |-> w, count |-> Occurrences(stream, w)])

\* C7 as stated: top_100_words has at most 100 entries and is the first 100
\* words in the order of descending count, ties in ascending lexicographic
\* order of the word.
C7_TiesLexicographic ==
    anPc = "done" =>
        LET Before(a, b) ==
                \/ a.count > b.count
                \/ a.count = b.count /\ LexLess(a.word, b.word)
        IN /\ Len(report.top_100_words) <= TopK
           /\ TopIsPrefixOf(report.top_100_words, CorpusStream(Len(processed)), Before)

\* C7 amended: top_100_words has at most 100 entries and is the first 100
\* words in the order of descending count, ties in the order of the words'
\* first occurrence in the corpus.
C7_TiesFirstOccurrence ==
    anPc = "done" =>
        LET stream == CorpusStream(Len(processed))
            Before(a, b) ==
                \/ a.count > b.count
                \/ a.count = b.count
                     /\ FirstIndex(stream, a.word) < FirstIndex(stream, b.word)
        IN /\ Len(report.top_100_words) <= TopK
           /\ TopIsPrefixOf(report.top_100_words, stream, Before)

\* More than 100 distinct words, 100 listed, and two listed words of equal
\* count that are not in lexicographic order.
C7_Witness ==
    /\ anPc = "done"
    /\ report.unique_words > TopK
    /\ Len(report.top_100_words) = TopK
    /\ \E i \in 1..(TopK - 1) :
          /\ report.top_100_words[i].count = report.top_100_words[i + 1].count
          /\ LexLess(report.top_100_words[i + 1].word, report.top_100_words[i].word)

\* C8 as stated: the listed frequencies, each count / total_words rounded to
\* 6 decimals, sum to at most 1.0.
C8_FrequencySumAtMostOne ==
    anPc = "done" =>
        SumFrequencies(report.top_100_words, Len(report.top_100_words)) <= Million

\* C8 amended: each listed frequency is count / total_words rounded to 6
\* decimals, and they sum to at most 1.0 plus half a millionth per entry.
C8_FrequencySumWithinRounding ==
    anPc = "done" =>
        LET top == report.top_100_words
        IN /\ \A i \in 1..Len(top) :
                /\ report.total_words > 0
                /\ 2 * top[i].frequency * report.total_words
                      <= 2 * top[i].count * Million + report.total_words
                /\ 2 * top[i].frequency * report.total_words
                      >= 2 * top[i].count * Million - report.total_words
           /\ 2 * SumFrequencies(top, Len(top)) <= 2 * Million + Len(top)

\* The listed frequencies sum to more than 1.0.
C8_Witness ==
    /\ anPc = "done"
    /\ SumFrequencies(report.top_100_words, Len(report.top_100_words)) > Million

\* C9 as stated: every pair of documents with identical lower-cased token
\* sets has similarity 1.0, a pair of documents without tokens included.
C9_IdenticalSetsSimilarityOne ==
    anPc = "done" =>
        \A k \in 1..Len(report.document_similarity) :
            LET r == report.document_similarity[k]
            IN DocTokenSet(r.doc1) = DocTokenSet(r.doc2) => r.similarity = Million

\* C9 amended: a pair of documents with identical, non-empty lower-cased
\* token sets has similarity 1.0; a pair of documents without tokens has 0.0.
C9_IdenticalNonEmptySetsSimilarityOne ==
    anPc = "done" =>
        \A k \in 1..Len(report.document_similarity) :
            LET r == report.document_similarity[k]
            IN DocTokenSet(r.doc1) = DocTokenSet(r.doc2) =>
                  r.similarity = IF DocTokenSet(r.doc1) # {} THEN Million ELSE 0

\* Two documents of different text and the same non-empty token set, and two
\* documents without tokens.
C9_Witness ==
    /\ anPc = "done"
    /\ \E k \in 1..Len(report.document_similarity) :
          LET r == report.document_similarity[k]
          IN /\ DocTokenSet(r.doc1) = DocTokenSet(r.doc2)
             /\ DocTokenSet(r.doc1) # {}
             /\ processed[r.doc1] # processed[r.doc2]
             /\ r.similarity = Million

\* C10: for N ingested documents document_similarity holds N*(N-1)/2 records,
\* one for each pair i < j in ingestion order, in combination order: the
\* record of (i, j) is at position (i-1)*(2N-i)/2 + (j-i).
C10_PairsInCombinationOrder ==
    anPc = "done" =>
        LET n == Len(processed)
            sim == report.document_similarity
        IN /\ Len(docs) = n
           /\ 2 * Len(sim) = n * (n - 1)
           /\ \A i, j \in 1..n :
                 i < j =>
                    LET k == (((i - 1) * (2 * n - i)) \div 2) + (j - i)
                    IN sim[k].doc1 = i /\ sim[k].doc2 = j
           /\ \A k \in 1..Len(sim) : sim[k].doc1 < sim[k].doc2

\* At least four documents, and the records are not in order of similarity.
C10_Witness ==
    /\ anPc = "done"
    /\ Len(docs) >= 4
    /\ \E k \in 1..(Len(report.document_similarity) - 1) :
          report.document_similarity[k].similarity
              < report.document_similarity[k + 1].similarity
    /\ \E k \in 1..(Len(report.document_similarity) - 1) :
          report.document_similarity[k].similarity
              > report.document_similarity[k + 1].similarity

\* The report of a corpus without documents: every number zero, every list empty.
EmptyReport ==
    [documents_processed |-> 0, total_words |-> 0, unique_words |-> 0,
     top_100_words |-> <<>>, document_similarity |-> <<>>,
     top_bigrams |-> <<>>, top_trigrams |-> <<>>,
     readability |-> [avg_sentence_length |-> 0, avg_word_length |-> 0,
                      complexity_score |-> 0]]

\* C11: with zero documents to ingest the analyzer does not fail, the report
\* it builds has every field, with documents_processed, total_words and
\* unique_words 0, the four lists empty and the readability numbers 0.0, and
\* the run ends with the report written and then the completion marker.
C11_EmptyCorpusReport ==
    Len(processed) = 0 =>
        /\ anPc # "failed"
        /\ anPc \in {"open", "dump", "marker", "dumpMarker", "done"} =>
              /\ report = EmptyReport
              /\ DOMAIN report = DOMAIN EmptyReport
        /\ anMarker # "absent" => reportFile = "complete"
        /\ anPc = "done" => reportFile = "complete" /\ anMarker = "complete"

\* The run over an empty directory has written the report and the marker.
C11_Witness ==
    /\ Len(processed) = 0
    /\ anPc = "done"
    /\ report.documents_processed = 0
    /\ report.readability.complexity_score = 0
    /\ anMarker = "complete"

\* The n-gram that attemptStarts at token i of the stream, as the report spells it.
GramAt(stream, i, n) == JoinWords(SubSeq(stream, i, i + n - 1))

GramStarts(stream, n) == {i \in 1..Len(stream) : i + n - 1 <= Len(stream)}

GramOccurrences(stream, n, g) ==
    Cardinality({i \in GramStarts(stream, n) : GramAt(stream, i, n) = g})

RECURSIVE SumCounts(_, _)
SumCounts(top, k) == IF k = 0 THEN 0 ELSE SumCounts(top, k - 1) + top[k].count

\* top lists n-grams of the stream, each once and with its number of
\* occurrences in the stream, the most frequent ones, at most TopK, in
\* non-increasing order of count; the counts of all n-grams sum to
\* max(0, T - n + 1).
TopNgramsOf(top, stream, n) ==
    LET grams == {GramAt(stream, i, n) : i \in GramStarts(stream, n)}
        listed == {top[k].gram : k \in 1..Len(top)}
        total == IF Len(stream) - n + 1 > 0 THEN Len(stream) - n + 1 ELSE 0
    IN /\ Len(top) <= TopK
       /\ Len(top) = Min(TopK, Cardinality(grams))
       /\ Cardinality(listed) = Len(top)
       /\ \A k \in 1..Len(top) :
             /\ top[k].gram \in grams
             /\ top[k].count = GramOccurrences(stream, n, top[k].gram)
       /\ \A k \in 1..(Len(top) - 1) : top[k].count >= top[k + 1].count
       /\ \A g \in grams \ listed :
             GramOccurrences(stream, n, g) <= top[Len(top)].count
       /\ SumCounts(top, Len(top)) <= total
       /\ Cardinality(grams) <= TopK => SumCounts(top, Len(top)) = total

ListedBigrams ==
    [k \in 1..Len(report.top_bigrams) |->
        [gram |-> report.top_bigrams[k].bigram, count |-> report.top_bigrams[k].count]]

ListedTrigrams ==
    [k \in 1..Len(report.top_trigrams) |->
        [gram |-> report.top_trigrams[k].trigram, count |-> report.top_trigrams[k].count]]

\* C13: top_bigrams and top_trigrams are taken from the one stream of the
\* lower-cased tokens of all documents in ingestion order (an n-gram may
\* span two documents); the counts of the n-grams of a corpus of T tokens
\* sum to max(0, T - n + 1); each list has at most 100 n-grams, the most
\* frequent ones, in non-increasing order of count.
C13_NgramsOfCorpusStream ==
    anPc = "done" =>
        LET stream == CorpusStream(Len(processed))
        IN /\ TopNgramsOf(ListedBigrams, stream, 2)
           /\ TopNgramsOf(ListedTrigrams, stream, 3)

\* A listed bigram and a listed trigram that occur inside no single document.
C13_Witness ==
    /\ anPc = "done"
    /\ Len(docs) >= 2
    /\ \E k \in 1..Len(report.top_bigrams) :
          \A d \in 1..Len(processed) :
              GramOccurrences(LowerAll(DocTokens(d)), 2, report.top_bigrams[k].bigram) = 0
    /\ \E k \in 1..Len(report.top_trigrams) :
          \A d \in 1..Len(processed) :
              GramOccurrences(LowerAll(DocTokens(d)), 3, report.top_trigrams[k].trigram) = 0

\* More than 100 distinct bigrams in the corpus, 100 of them listed.
C13_WitnessTruncated ==
    /\ anPc = "done"
    /\ Len(all_tokens) > TopK + 1
    /\ Len(report.top_bigrams) = TopK
    /\ SumCounts(ListedBigrams, TopK) < Len(all_tokens) - 1

(***************************************************************************)
(* Claims about two runs over the same documents (SpecTwoRuns).            *)
(***************************************************************************)

HasTie(top) == \E k \in 1..(Len(top) - 1) : top[k].count = top[k + 1].count

C15_PollsThenCompletes ==
    /\ [](~procMarker =>
            /\ anPc = "wait"
            /\ files = <<>> /\ idx = 0 /\ docs = <<>> /\ all_tokens = <<>>
            /\ report = NoReport
            /\ reportFile = "absent"
            /\ anMarker = "absent")
    /\ [][anPc # "wait" => anPc' # "wait"]_vars
    /\ [](anMarker # "absent" => reportFile = "complete")
    /\ [][anPc = "done" => anPc' = "done"]_vars
    /\ (procMarker ~> (anPc = "done" /\ reportFile = "complete" /\ anMarker = "complete"))

\* The analyzer has terminated with report and marker written, after the
\* processor produced documents.
C15_Witness ==
    /\ procMarker
    /\ Len(processed) >= 1
    /\ anPc = "done"
    /\ reportFile = "complete"
    /\ anMarker = "complete"

(***************************************************************************)
(* Claims about rate_limited_get (SpecGet).                                *)
(***************************************************************************)
Last(q) == q[Len(q)]

\* C14: rate_limited_get makes at most max_attempts requests; every attempt
\* but the last one made ended with HTTP 429 (no retry after a response or
\* after another error), it returns exactly when an attempt gets a response,
\* it goes on to a further attempt exactly after a 429 with attempts left,
\* it raises after any other error and after a 429 at the last attempt,
\* without sleeping first, and consecutive attempts start at least 3 seconds
\* apart.
C14_AttemptsAndSpacing ==
    /\ Len(outcomes) <= max_attempts
    /\ Len(attemptStarts) <= max_attempts
    /\ Len(attemptStarts) = Len(outcomes) + (IF rlPc = "request" THEN 1 ELSE 0)
    /\ \A k \in 1..(Len(outcomes) - 1) : outcomes[k] = "http429"
    /\ rlPc = "returned" <=> (outcomes # <<>> /\ Last(outcomes) = "response")
    /\ rlPc = "raised" <=>
          /\ outcomes # <<>>
          /\ Last(outcomes) # "response"
          /\ Last(outcomes) = "http429" => Len(outcomes) = max_attempts
    /\ rlPc \in {"returned", "raised"} => clock - Last(attemptStarts) <= MaxLatency
    /\ rlPc = "fellOff" => max_attempts = 0 /\ outcomes = <<>>
    /\ \A k \in 1..(Len(attemptStarts) - 1) : attemptStarts[k + 1] - attemptStarts[k] >= MinGap

\* Three attempts were made, the first two ended with 429, and the call has
\* returned or raised.
C14_Witness ==
    /\ rlPc \in {"returned", "raised"}
    /\ max_attempts = DefaultMaxAttempts
    /\ Len(attemptStarts) = DefaultMaxAttempts
    /\ outcomes[1] = "http429"
    /\ outcomes[2] = "http429"

(***************************************************************************)
(* Claims about fetch_and_process.py (SpecFetch).                          *)
(***************************************************************************)
\* the sum of the values of a dictionary
DictSum(d) ==
    LET Nth(i) == CHOOSE k \in DOMAIN d : Cardinality({x \in DOMAIN d : x < k}) = i - 1
        S[i \in 0..Cardinality(DOMAIN d)] == IF i = 0 THEN 0 ELSE S[i - 1] + d[Nth(i)]
    IN S[Cardinality(DOMAIN d)]

\* the log lines the failed records call for, in order
FailedLines(recs) ==
    LET F[i \in 0..Len(recs)] ==
            IF i = 0 THEN <<>>
            ELSE IF recs[i].error = NoError THEN F[i - 1]
            ELSE Append(F[i - 1], [url |-> recs[i].url, msg |-> recs[i].error])
    IN F[Len(recs)]

\* C16: once the run over a list of URLs has ended, it has written its
\* output, with exactly one record per input URL in input order, with
\* successful_requests + failed_requests = total_urls, with the counts of
\* status_code_distribution summing to the number of URLs that yielded an
\* HTTP status, and with one error-log line for each failed URL and none for
\* a successful one.
C16_OneRecordPerUrl ==
    fpPc \in {"done", "crashed"} =>
        /\ fpPc = "done"
        /\ Len(responses) = Len(urls)
        /\ \A i \in 1..Len(urls) : responses[i].url = urls[i]
        /\ summary.successful_requests + summary.failed_requests = summary.total_urls
        /\ summary.total_urls = Len(urls)
        /\ DictSum(summary.status_code_distribution)
              = Cardinality({i \in 1..Len(responses) : responses[i].status_code # 0})
        /\ errorLog = FailedLines(responses)
        /\ \A i \in 1..Len(responses) :
              responses[i].error = NoError <=> Is2xx(responses[i].status_code)

(***************************************************************************)
(* Claims about arxiv_processor.py (SpecArxiv).                            *)
(***************************************************************************)
\* the lower-cased tokens of an emitted paper's abstract
PaperTokens(p) == LowerAll(tokenize(p.abstract))

\* the accumulators as the first n emitted papers alone make them
RECURSIVE FromPapers(_)
FromPapers(n) ==
    IF n = 0
    THEN [total_words_all |-> 0, abstract_lengths |-> <<>>, global_vocab |-> {},
          df_counts |-> EmptyDict, tf_counts |-> EmptyDict, uppercase_terms |-> {},
          numeric_terms |-> {}, hyphen_terms |-> {}, category_distribution |-> EmptyDict]
    ELSE LET acc == FromPapers(n - 1)
             p == papers_out[n]
         IN [total_words_all |-> acc.total_words_all + p.abstract_stats.total_words,
             abstract_lengths |-> Append(acc.abstract_lengths, p.abstract_stats.total_words),
             global_vocab |-> acc.global_vocab \cup Range(PaperTokens(p)),
             df_counts |-> DfUpdate(acc.df_counts, PaperTokens(p)),
             tf_counts |-> TfUpdate(acc.tf_counts, PaperTokens(p)),
             uppercase_terms |-> acc.uppercase_terms \cup extract_terms_upper(p.abstract),
             numeric_terms |-> acc.numeric_terms \cup extract_terms_numeric(p.abstract),
             hyphen_terms |-> acc.hyphen_terms \cup extract_terms_hyphen(p.abstract),
             category_distribution |->
                 CountCategories(acc.category_distribution, p.categories)]

\* C17: the accumulators are those of the emitted papers alone, so that an
\* entry that was skipped (a missing id, title or summary, or an error) has
\* changed none of them, category_distribution included, and the corpus
\* object lists the categories of the emitted papers only.
C17_SkippedEntryChangesNothing ==
    axPc \in {"loop", "done"} =>
        LET acc == FromPapers(Len(papers_out))
        IN /\ total_words_all = acc.total_words_all
           /\ abstract_lengths = acc.abstract_lengths
           /\ global_vocab = acc.global_vocab
           /\ df_counts = acc.df_counts
           /\ tf_counts = acc.tf_counts
           /\ uppercase_terms = acc.uppercase_terms
           /\ numeric_terms = acc.numeric_terms
           /\ hyphen_terms = acc.hyphen_terms
           /\ category_distribution = acc.category_distribution
           /\ axPc = "done" =>
                 corpus.category_distribution = SortedItems(acc.category_distribution)

====
